---- MODULE Spec2Model ----
(***************************************************************************)
(* A model of the Locust Discord bot: the slash-command dispatcher and the *)
(* message / reaction handlers of src/src/index.ts, the /warn command of    *)
(* src/src/commands/staff/warn.ts and the /starboard command of            *)
(* src/unnamed/part_000 (commands/management/starboard.ts).                *)
(*                                                                         *)
(* Handlers are async functions: a handler runs without interruption up to *)
(* its next await on a platform call, so every action below is one such    *)
(* synchronous segment and a handler's pc names the await it is parked on. *)
(* File I/O is synchronous (readFileSync / writeFileSync) and therefore    *)
(* always lies inside one segment.                                         *)
(***************************************************************************)
EXTENDS Integers, Sequences, FiniteSets, TLC

VARIABLES
  warnFile,      \* data/warnings.json
  warnLog,       \* history: the warning objects built by warn.ts:63-69, in order
  ix,            \* the interactions being handled, one per handler slot
  starboardFile, \* data/starboard.json
  lastSaved,     \* history: per guild, the data of its latest completed saveConfig
  parse,         \* one evaluation of the channel parsing of /starboard
  hs,            \* the message-create / reaction-add handlers in progress, per slot
  events,        \* history: how many gateway events have been dispatched
  delivered,     \* history: message-create events delivered, per message id
  reactCalls,    \* message.react calls made, per message id
  threadCalls,   \* threads.create calls made, per message id
  postedToHallOfFame,   \* client.postedToHallOfFame
  hofSends,      \* textChan.send calls made, per message id
  hofPosted,     \* history: textChan.send calls that succeeded, per message id
  lifetimes,     \* history: the posted-set of each process lifetime that has ended
  discovered,    \* history: the entries the command loader finds under commands/
  toLoad,        \* the entries the loader has not got to yet
  commands,      \* client.commands: command name -> the module registered for it
  invoked        \* the latest interaction and what the dispatcher did with it

warnVars == <<warnFile, warnLog>>
sbVars == <<starboardFile, lastSaved>>
parseVars == <<parse>>
loadVars == <<discovered, toLoad, commands, invoked>>
evVars == <<hs, events, delivered, reactCalls, threadCalls, postedToHallOfFame, hofSends,
            hofPosted,
            lifetimes>>

vars == <<warnFile, warnLog, ix, starboardFile, lastSaved, parse, hs, events,
          delivered, reactCalls, threadCalls, postedToHallOfFame, hofSends, hofPosted,
          lifetimes,
          discovered, toLoad, commands, invoked>>

(***************************************************************************)
(* Bounds of the model                                                     *)
(***************************************************************************)
MaxWarnings == 2          \* validated /warn executions per behaviour
MaxTokens == 2            \* space-separated tokens of a channels string
MaxEvents == 2            \* gateway events dispatched per behaviour
MaxCount == 2             \* the largest reaction count the platform reports

Slots == {"h1", "h2"}     \* handler executions that may be in progress together

(***************************************************************************)
(* JSON files.  A file is missing, blank (whitespace only), garbage (text  *)
(* that is not JSON) or the serialisation of an array of objects.  An      *)
(* object in memory is a function from keys to values, an optional field   *)
(* being {} (undefined) or {v}; JSON.stringify writes no key for an        *)
(* undefined value, so the parsed object has no such key.                  *)
(***************************************************************************)
Undefined == {}

OptionalKeys == {"hallOfFameChannelId", "threshold"}

Missing == [st |-> "missing", val |-> <<>>]
Blank == [st |-> "blank", val |-> <<>>]
Garbage == [st |-> "garbage", val |-> <<>>]

StringifyObject(o) ==
  LET kept == {k \in DOMAIN o : k \notin OptionalKeys \/ o[k] # Undefined}
  IN  [k \in kept |-> IF k \in OptionalKeys THEN CHOOSE v \in o[k] : TRUE ELSE o[k]]

JSONstringify(arr) ==
  [st |-> "json", val |-> [i \in 1..Len(arr) |-> StringifyObject(arr[i])]]

\* JSON.parse throws on text that is not JSON (blank text included)
ParseThrows(file) == file.st \in {"blank", "garbage"}

ParseObject(t) == [k \in DOMAIN t |-> IF k \in OptionalKeys THEN {t[k]} ELSE t[k]]

JSONparse(file) == [i \in 1..Len(file.val) |-> ParseObject(file.val[i])]

\* reading an optional property: undefined when the object has no such key
Prop(o, k) == IF k \in DOMAIN o THEN o[k] ELSE Undefined

existsSync(file) == file.st # "missing"

(***************************************************************************)
(* /warn  (src/src/commands/staff/warn.ts)                                 *)
(***************************************************************************)
StaffRoleName == "Staff"

\* interaction.member (the caller with the names of its roles), the member that
\* interaction.options.getMember('user') resolves to (null when the user is not a
\* member of the guild), the reason option, and what Math.random() and new Date()
\* give in the execution.  Case ids are not checked for collision.
NullTarget == [kind |-> "null", id |-> "none", bot |-> FALSE]

BotTarget == [kind |-> "member", id |-> "b1", bot |-> TRUE]

Member(id) == [kind |-> "member", id |-> id, bot |-> FALSE]

Caller(id, roles) == [id |-> id, roles |-> roles]

Invocation(staff, target, reason, caseId, ts) ==
  [staff |-> staff, target |-> target, reason |-> reason, caseId |-> caseId, ts |-> ts]

WarnInvocations ==
  { Invocation(Caller("u1", {"Staff"}), Member("u2"), "spam", "K1", "t1"),
    Invocation(Caller("u1", {"Staff", "Mod"}), Member("u3"), "rude", "K1", "t2"),
    Invocation(Caller("u6", {"Mod", "Staff"}), Member("u2"), "spam", "K2", "t2"),
    Invocation(Caller("u4", {"staff", "Mod"}), Member("u2"), "spam", "K2", "t1"),
    Invocation(Caller("u5", {}), BotTarget, "rude", "K1", "t1"),
    Invocation(Caller("u4", {"staff", "Mod"}), NullTarget, "rude", "K2", "t2"),
    Invocation(Caller("u1", {"Staff"}), BotTarget, "spam", "K2", "t1"),
    Invocation(Caller("u6", {"Mod", "Staff"}), NullTarget, "rude", "K1", "t2") }

\* warn.ts:33  staff.roles.cache.some(role => role.name === 'Staff')
HasStaffRole_AnyCase(staff) == \E r \in staff.roles : r \in {"Staff", "staff"}

HasStaffRole(staff) == \E r \in staff.roles : r = StaffRoleName

\* warn.ts:37  !target || target.user.bot
InvalidTarget_NullOnly(target) == target.kind = "null"

InvalidTarget(target) == target.kind = "null" \/ target.bot

\* warn.ts:48-60  the array the command starts from
LoadWarnings(file) ==
  IF ~existsSync(file) THEN <<>>
  ELSE IF file.st = "blank" THEN <<>>          \* rawData.trim() is empty
  ELSE IF ParseThrows(file) THEN <<>>          \* catch: reset to empty array
  ELSE JSONparse(file)

\* warn.ts:63-69
NewWarning(caseId, target, staff, reason, ts) ==
  [caseId |-> caseId, userId |-> target.id, staffId |-> staff.id,
   reason |-> reason, timestamp |-> ts]

\* warn.ts:71-72  warnings.push(warning); writeFileSync(JSON.stringify(warnings))
PushAndWrite_Prepend(file, warning) == JSONstringify(<<warning>> \o LoadWarnings(file))

PushAndWrite_Overwrite(file, warning) == JSONstringify(<<warning>>)

PushAndWrite(file, warning) == JSONstringify(Append(LoadWarnings(file), warning))

NoInvocation == Invocation(Caller("none", {}), NullTarget, "none", "none", "none")

IdleIx ==
  [pc |-> "idle", cmd |-> "none", in |-> NoInvocation, deferred |-> FALSE,
   replied |-> FALSE, replies |-> <<>>, writes |-> 0, dms |-> 0, dm |-> "none"]

Free(s) == ix[s].pc \in {"idle", "done", "unhandled"}

\* index.ts:127-133: execute threw or rejected; the generic failure message goes
\* out as a follow-up when the interaction is deferred or replied to, else as
\* the initial reply
ExecuteRejected_AlwaysReply(h) ==
  [h EXCEPT !.pc = "errReply", !.replies = Append(@, "errorReply")]

ExecuteRejected(h) ==
  [h EXCEPT !.pc = "errReply",
            !.replies = Append(@, IF h.deferred \/ h.replied THEN "errorFollowUp"
                                                             ELSE "errorReply")]

\* index.ts:118-126 and warn.ts:27-84: from the dispatch to the first await
WarnExecute(s) ==
  /\ Free(s)
  /\ \E in \in WarnInvocations :
       LET base == [IdleIx EXCEPT !.cmd = "warn", !.in = in]
       IN
       IF ~HasStaffRole(in.staff)
       THEN /\ ix' = [ix EXCEPT ![s] = [base EXCEPT !.pc = "reply",
                                                    !.replies = <<"denied">>]]
            /\ UNCHANGED <<warnVars, sbVars, parseVars, loadVars, evVars>>
       ELSE IF InvalidTarget(in.target)
       THEN /\ ix' = [ix EXCEPT ![s] = [base EXCEPT !.pc = "reply",
                                                    !.replies = <<"invalidTarget">>]]
            /\ UNCHANGED <<warnVars, sbVars, parseVars, loadVars, evVars>>
       ELSE LET warning == NewWarning(in.caseId, in.target, in.staff, in.reason, in.ts)
            IN  /\ Len(warnLog) < MaxWarnings
                /\ warnFile' = PushAndWrite(warnFile, warning)
                /\ warnLog' = Append(warnLog, warning)
                /\ ix' = [ix EXCEPT ![s] = [base EXCEPT !.pc = "dm", !.writes = 1,
                                                       !.dms = 1]]
                /\ UNCHANGED <<sbVars, parseVars, loadVars, evVars>>

\* warn.ts:75-103: target.send settles; either way the summary reply is issued
AfterDm_OnlyOnSuccess(h, ok) ==
  IF ok THEN [h EXCEPT !.pc = "reply", !.dm = "sent",
                       !.replies = Append(@, "warnSummary")]
        ELSE [h EXCEPT !.pc = "unhandled", !.dm = "failed"]

AfterDm(h, ok) ==
  [h EXCEPT !.pc = "reply", !.dm = IF ok THEN "sent" ELSE "failed",
            !.replies = Append(@, "warnSummary")]

WarnDmReturn(s) ==
  /\ ix[s].pc = "dm"
  /\ \E ok \in BOOLEAN : ix' = [ix EXCEPT ![s] = AfterDm(ix[s], ok)]
  /\ UNCHANGED <<warnVars, sbVars, parseVars, loadVars, evVars>>

\* index.ts:124-134: the reply (or editReply) that ends execute settles.  A
\* rejection is caught by the dispatcher.
ReplyReturn(s) ==
  /\ ix[s].pc = "reply"
  /\ \E ok \in BOOLEAN :
       ix' = [ix EXCEPT ![s] =
                IF ok THEN [@ EXCEPT !.pc = "done", !.replied = TRUE]
                ELSE ExecuteRejected(@)]
  /\ UNCHANGED <<warnVars, sbVars, parseVars, loadVars, evVars>>

\* index.ts:130-132: the failure message itself is sent or rejected
ErrReplyReturn(s) ==
  /\ ix[s].pc = "errReply"
  /\ \E ok \in BOOLEAN :
       ix' = [ix EXCEPT ![s] = IF ok THEN [@ EXCEPT !.pc = "done", !.replied = TRUE]
                                     ELSE [@ EXCEPT !.pc = "unhandled"]]
  /\ UNCHANGED <<warnVars, sbVars, parseVars, loadVars, evVars>>

\* ping.ts:8-10 and index.ts:118-126: /ping, from the dispatch to the await of
\* deferReply
PingExecute(s) ==
  /\ Free(s)
  /\ ix' = [ix EXCEPT ![s] = [IdleIx EXCEPT !.cmd = "ping", !.pc = "defer"]]
  /\ UNCHANGED <<warnVars, sbVars, parseVars, loadVars, evVars>>

\* ping.ts:10-13: deferReply settles; on success the interaction is deferred and
\* the reply is fetched
PingDeferReturn(s) ==
  /\ ix[s].pc = "defer"
  /\ \E ok \in BOOLEAN :
       ix' = [ix EXCEPT ![s] =
                IF ok THEN [@ EXCEPT !.pc = "fetchReply", !.deferred = TRUE]
                ELSE ExecuteRejected(@)]
  /\ UNCHANGED <<warnVars, sbVars, parseVars, loadVars, evVars>>

\* ping.ts:13-17: fetchReply settles; on success the latency goes out by editReply
PingFetchReturn(s) ==
  /\ ix[s].pc = "fetchReply"
  /\ \E ok \in BOOLEAN :
       ix' = [ix EXCEPT ![s] =
                IF ok THEN [@ EXCEPT !.pc = "reply", !.replies = Append(@, "pong")]
                ELSE ExecuteRejected(@)]
  /\ UNCHANGED <<warnVars, sbVars, parseVars, loadVars, evVars>>

\* no saveConfig has completed for any guild
NoSave == [g \in {"g1", "g2"} |-> {}]

(***************************************************************************)
(* Gateway events (src/src/index.ts): the messages and reactions of the    *)
(* model, and the handler state at rest                                    *)
(***************************************************************************)
Message(id, g, channelId, author, attachments, inTextChannel) ==
  [id |-> id, guildId |-> g, channelId |-> channelId, author |-> author,
   attachments |-> attachments, inTextChannel |-> inTextChannel]

MsgIds == {"m1", "m2", "m3", "m4", "m5", "m6", "m7", "m8"}

NoMessage == Message("none", "none", <<>>, "user", 0, FALSE)

ReactionEvent(msg, emoji, userBot, reactionPartial, msgPartial) ==
  [msg |-> msg, emoji |-> emoji, userBot |-> userBot,
   reactionPartial |-> reactionPartial, msgPartial |-> msgPartial]

MessageEvent(msg) == ReactionEvent(msg, "none", FALSE, FALSE, FALSE)

IdleHs ==
  [pc |-> "idle", kind |-> "none", ev |-> MessageEvent(NoMessage), configs |-> <<>>,
   cfg |-> {}, count |-> 0, exit |-> "none", calls |-> <<>>, failed |-> {}]

QuietEvents ==
  /\ hs = [s \in Slots |-> IdleHs]
  /\ events = 0
  /\ delivered = [m \in MsgIds |-> 0]
  /\ reactCalls = [m \in MsgIds |-> 0]
  /\ threadCalls = [m \in MsgIds |-> 0]
  /\ postedToHallOfFame = {}
  /\ hofSends = [m \in MsgIds |-> 0]
  /\ hofPosted = [m \in MsgIds |-> 0]
  /\ lifetimes = <<>>

(***************************************************************************)
(* The command loader and the first lines of the dispatcher                *)
(* (src/src/index.ts:55-84, 118-126)                                       *)
(***************************************************************************)
\* an entry under commands/: a file directly in commands/ ("rootFile"), or a
\* file of a subfolder with its extension and what requiring it gives, data.name
\* ({} when the module has no data or no name in it) and the type of execute
Entry(path, kind, ext, name, exec) ==
  [path |-> path, kind |-> kind, ext |-> ext, name |-> name, exec |-> exec]

\* index.ts:67-71  the entry is a file of a subfolder that ends in .ts or .js
IsCommandFile(e) == e.kind = "file" /\ e.ext \in {"ts", "js"}

\* index.ts:77  cmd?.name && typeof commandModule.execute === 'function'
IsLoadable_NameOnly(e) == e.name # Undefined /\ \A n \in e.name : n # ""

IsLoadable(e) ==
  /\ e.name # Undefined /\ \A n \in e.name : n # ""
  /\ e.exec = "function"

\* index.ts:78  client.commands.set(cmd.name, commandModule)
SetCommand(map, name, path) == (name :> path) @@ map

NoCommands == <<>>

\* an interaction: whether it is a chat-input command, and its command name
Interaction(chatInput, commandName) ==
  [chatInput |-> chatInput, commandName |-> commandName]

NoDispatch == [in |-> Interaction(FALSE, "none"), handler |-> {}, replies |-> 0]

\* the three command modules of the repository
RepositoryEntries ==
  << Entry("management/starboard.ts", "file", "ts", {"starboard"}, "function"),
     Entry("members/ping.ts", "file", "ts", {"ping"}, "function"),
     Entry("staff/warn.ts", "file", "ts", {"warn"}, "function") >>

RepositoryCommands ==
  ("ping" :> "members/ping.ts") @@ ("warn" :> "staff/warn.ts")
    @@ ("starboard" :> "management/starboard.ts")

\* the loader has run over the repository's commands/ folder
CommandsLoaded ==
  /\ discovered = RepositoryEntries
  /\ toLoad = <<>>
  /\ commands = RepositoryCommands
  /\ invoked = NoDispatch

NoParse == [guildId |-> "none", channels |-> <<>>, done |-> FALSE, out |-> <<>>]

InitWarn ==
  /\ starboardFile = Missing
  /\ lastSaved = NoSave
  /\ parse = NoParse
  /\ QuietEvents
  /\ CommandsLoaded
  /\ warnFile \in {Missing, Blank, Garbage, JSONstringify(<<>>)}
  /\ warnLog = <<>>
  /\ ix = [s \in Slots |-> IdleIx]

NextWarn ==
  \E s \in Slots :
    \/ WarnExecute(s)
    \/ WarnDmReturn(s)
    \/ ReplyReturn(s)
    \/ ErrReplyReturn(s)

SpecWarn == InitWarn /\ [][NextWarn]_vars

(***************************************************************************)
(* /starboard  (src/unnamed/part_000)                                      *)
(***************************************************************************)
\* Characters: the digits are 0..9, every other character has a code above 9.
Ch == [sp |-> 10, lt |-> 11, hash |-> 12, gt |-> 13, dash |-> 14,
       a |-> 15, d |-> 16, i |-> 17, n |-> 18, o |-> 19, t |-> 20]

IsDigit(c) == c \in 0..9

Min(a, b) == IF a <= b THEN a ELSE b

\* the quantifier of /(\d{17,19})/g
MinIdDigits == 17
MaxIdDigits == 19

\* the digits the regex can take at position i: greedy, at most MaxIdDigits
RECURSIVE DigitRun(_, _, _)
DigitRun(str, i, max) ==
  IF max = 0 \/ i > Len(str) \/ ~IsDigit(str[i]) THEN 0
  ELSE 1 + DigitRun(str, i + 1, max - 1)

\* part_000:155  channelsInput.matchAll(/(\d{17,19})/g), m => m[1]
RECURSIVE MatchAllFrom(_, _)
MatchAllFrom(str, i) ==
  IF i > Len(str) THEN <<>>
  ELSE LET n == DigitRun(str, i, MaxIdDigits)
       IN  IF n >= MinIdDigits
           THEN <<SubSeq(str, i, i + n - 1)>> \o MatchAllFrom(str, i + n)
           ELSE MatchAllFrom(str, i + 1)

matchAll(str) == MatchAllFrom(str, 1)

\* part_000:154  Array.from(new Set(...)): first occurrences, in insertion order
RECURSIVE ArrayFromSet(_)
ArrayFromSet(seq) ==
  IF seq = <<>> THEN <<>>
  ELSE LET front == ArrayFromSet(SubSeq(seq, 1, Len(seq) - 1))
           last == seq[Len(seq)]
       IN  IF \E k \in 1..Len(front) : front[k] = last THEN front
           ELSE Append(front, last)

Rep(c, n) == [k \in 1..n |-> c]

\* channel ids of the model
IdA == Rep(1, 18)                 \* "111111111111111111"
IdB == Rep(2, 18)                 \* "222222222222222222"
IdC == Rep(1, 19)
IdD == Rep(1, 18) \o <<2>>
IdV == Rep(3, 17)
IdU == Rep(4, 18)
IdN == Rep(5, 18)

Guilds == {"g1", "g2"}

\* interaction.guild.channels.cache: the type of each channel of the guild
ChannelCache ==
  [g \in Guilds |->
     IF g = "g1"
     THEN (IdA :> "GuildText") @@ (IdB :> "GuildText") @@ (IdC :> "GuildText")
          @@ (IdD :> "GuildText") @@ (IdV :> "GuildVoice")
          @@ (IdN :> "GuildAnnouncement")
     ELSE (IdC :> "GuildText") @@ (IdD :> "PublicThread")]

\* part_000:161-162  chan?.type === ChannelType.GuildText
IsTextChannel_AnyChannel(g, id) == id \in DOMAIN ChannelCache[g]

IsTextChannel(g, id) ==
  id \in DOMAIN ChannelCache[g] /\ ChannelCache[g][id] = "GuildText"

\* part_000:154-163
ValidChannelIds(g, channelsInput) ==
  LET ids == ArrayFromSet(matchAll(channelsInput))
  IN  SelectSeq(ids, LAMBDA id : IsTextChannel(g, id))

\* part_000:148-151  opt ?? dflt
Coalesce(opt, dflt) == IF opt = Undefined THEN dflt ELSE CHOOSE v \in opt : TRUE

\* part_000:168-175
ConfigData(in) ==
  [channelIds |-> ValidChannelIds(in.guildId, in.channels),
   emoji |-> in.emoji,
   onlyAttachments |-> Coalesce(in.onlyAttachments, FALSE),
   autoThread |-> Coalesce(in.autoThread, FALSE),
   hallOfFameChannelId |-> in.hof,
   threshold |-> in.threshold]

\* part_000:97  { guildId, ...data }
WithGuild(guildId, data) ==
  [k \in DOMAIN data \cup {"guildId"} |-> IF k = "guildId" THEN guildId ELSE data[k]]

\* part_000:93-94  JSON.parse is not guarded: saveConfig throws on a file that
\* exists and does not parse
saveConfigThrows(file) == existsSync(file) /\ ParseThrows(file)

\* part_000:91-99
saveConfig_NewFirst(file, guildId, data) ==
  LET configs == IF existsSync(file) THEN JSONparse(file) ELSE <<>>
      others == SelectSeq(configs, LAMBDA c : c.guildId # guildId)
  IN  JSONstringify(<<WithGuild(guildId, data)>> \o others)

saveConfig_NoFilter(file, guildId, data) ==
  JSONstringify(Append(IF existsSync(file) THEN JSONparse(file) ELSE <<>>,
                       WithGuild(guildId, data)))

saveConfig(file, guildId, data) ==
  LET configs == IF existsSync(file) THEN JSONparse(file) ELSE <<>>
      others == SelectSeq(configs, LAMBDA c : c.guildId # guildId)
  IN  JSONstringify(Append(others, WithGuild(guildId, data)))

Join(a, b) == a \o <<Ch.sp>> \o b

Mention(id) == <<Ch.lt, Ch.hash>> \o id \o <<Ch.gt>>

NotAnId == <<Ch.n, Ch.o, Ch.t, Ch.dash, Ch.a, Ch.n, Ch.dash, Ch.i, Ch.d>>

SbInvocation(g, channels, emoji, onlyAttachments, autoThread, hof, threshold) ==
  [guildId |-> g, channels |-> channels, emoji |-> emoji,
   onlyAttachments |-> onlyAttachments, autoThread |-> autoThread,
   hof |-> hof, threshold |-> threshold]

\* the options of a /starboard invocation; an option left out is Undefined
StarboardInvocations ==
  { SbInvocation("g1", Join(Mention(IdA), Join(IdB, NotAnId)), "star",
                 {TRUE}, {}, {IdB}, {2}),
    SbInvocation("g1", IdB, "fire", {}, {TRUE}, {}, {}),
    SbInvocation("g2", Join(Mention(IdC), IdC), "star", {FALSE}, {FALSE}, {IdC}, {}),
    SbInvocation("g1", NotAnId, "star", {}, {}, {}, {}),
    SbInvocation("g2", Join(IdA, Mention(IdD)), "fire", {TRUE}, {}, {IdC}, {1}),
    SbInvocation("g1", Join(IdV, IdU), "star", {}, {TRUE}, {IdA}, {3}) }

\* ConfigData of each invocation of the model, evaluated once
ConfigDataOf == [in \in StarboardInvocations |-> ConfigData(in)]

\* index.ts:118-126 and part_000:144-189: from the dispatch to the first await
StarboardExecute(s) ==
  /\ Free(s)
  /\ \E in \in StarboardInvocations :
       LET base == [IdleIx EXCEPT !.cmd = "starboard", !.in = in]
           data == ConfigDataOf[in]
       IN
       IF Len(data.channelIds) = 0
       THEN /\ ix' = [ix EXCEPT ![s] = [base EXCEPT !.pc = "reply",
                                                    !.replies = <<"noValidChannels">>]]
            /\ UNCHANGED <<warnVars, sbVars, parseVars, loadVars, evVars>>
       ELSE IF saveConfigThrows(starboardFile)
       THEN /\ ix' = [ix EXCEPT ![s] = ExecuteRejected(base)]
            /\ UNCHANGED <<warnVars, sbVars, parseVars, loadVars, evVars>>
       ELSE /\ starboardFile' = saveConfig(starboardFile, in.guildId, data)
            /\ lastSaved' = [lastSaved EXCEPT ![in.guildId] = {data}]
            /\ ix' = [ix EXCEPT ![s] = [base EXCEPT !.pc = "reply", !.writes = 1,
                                                   !.replies = <<"configured">>]]
            /\ UNCHANGED <<warnVars, parseVars, loadVars, evVars>>

\* a record an earlier process lifetime left in the file
OldConfig(g, id) ==
  StringifyObject(WithGuild(g, [channelIds |-> <<id>>, emoji |-> "star",
                                onlyAttachments |-> FALSE, autoThread |-> TRUE,
                                hallOfFameChannelId |-> {id}, threshold |-> {}]))

InitialStarboardFiles ==
  { Missing, Blank, Garbage,
    [st |-> "json", val |-> <<>>],
    [st |-> "json", val |-> <<OldConfig("g1", IdA)>>],
    [st |-> "json", val |-> <<OldConfig("g2", IdC), OldConfig("g1", IdA)>>],
    [st |-> "json", val |-> <<OldConfig("g3", IdD), OldConfig("g1", IdA),
                              OldConfig("g2", IdC)>>] }

InitStarboard ==
  /\ parse = NoParse
  /\ QuietEvents
  /\ CommandsLoaded
  /\ starboardFile \in InitialStarboardFiles
  /\ lastSaved = NoSave
  /\ warnFile = Missing
  /\ warnLog = <<>>
  /\ ix = [s \in Slots |-> IdleIx]

NextStarboard ==
  \E s \in Slots :
    \/ StarboardExecute(s)
    \/ ReplyReturn(s)
    \/ ErrReplyReturn(s)

SpecStarboard == InitStarboard /\ [][NextStarboard]_vars

(***************************************************************************)
(* The message-create and reaction-add handlers  (src/src/index.ts)        *)
(***************************************************************************)
\* index.ts:87-98
loadStarboardConfigs(file) ==
  IF ~existsSync(file) THEN <<>>
  ELSE IF ParseThrows(file) THEN <<>>
  ELSE JSONparse(file)

\* index.ts:142, 190  configs.find(c => c.guildId === guildId): {} when none
FindConfig(configs, guildId) ==
  LET hits == {i \in 1..Len(configs) : configs[i].guildId = guildId}
  IN  IF hits = {} THEN {}
      ELSE {configs[CHOOSE i \in hits : \A j \in hits : i <= j]}

The(maybe) == CHOOSE v \in maybe : TRUE

\* index.ts:146, 212  cfg.channelIds.includes(id)
Includes(channelIds, id) == \E k \in 1..Len(channelIds) : channelIds[k] = id

\* index.ts:147, 218  cfg.onlyAttachments && attachments.size === 0
AttachmentRuleBlocks_Never(cfg, msg) == FALSE

AttachmentRuleBlocks(cfg, msg) == cfg.onlyAttachments /\ msg.attachments = 0

Finish(h, exit) == [h EXCEPT !.pc = "done", !.exit = exit, !.configs = <<>>]

\* the handler makes a platform call and parks on its await
Call(h, name) == [h EXCEPT !.pc = name, !.calls = Append(@, name)]

\* an awaited platform call settles; a rejection is recorded
Settled(h, name, ok) == [h EXCEPT !.failed = IF ok THEN @ ELSE @ \cup {name}]

Idle(s) == hs[s].pc \in {"idle", "done", "unhandled"}

Bump(f, id) == [f EXCEPT ![id] = @ + 1]

Messages ==
  { Message("m1", "g1", IdA, "user", 0, TRUE),
    Message("m2", "g1", IdA, "user", 1, TRUE),
    Message("m3", "g1", IdB, "bot", 1, TRUE),
    Message("m4", "none", IdU, "user", 1, FALSE),
    Message("m5", "g1", IdV, "user", 1, FALSE),
    Message("m6", "g2", IdC, "user", 0, FALSE),
    Message("m7", "g1", IdB, "null", 2, TRUE),
    Message("m8", "g1", IdN, "user", 1, FALSE) }

\* message-create events carry a message with its author
CreatedMessages == {m \in Messages : m.author # "null"}

\* index.ts:138  message.author.bot || !message.guild
IgnoresMessage_Never(m) == FALSE

IgnoresMessage(m) == m.author = "bot" \/ m.guildId = "none"

\* index.ts:137-150: from the delivery of the event to the await of message.react
MessageCreate(s) ==
  /\ Idle(s)
  /\ events < MaxEvents
  /\ \E m \in CreatedMessages :
       LET h == [IdleHs EXCEPT !.kind = "message", !.ev = MessageEvent(m)]
           cfg == FindConfig(loadStarboardConfigs(starboardFile), m.guildId)
           exit == IF IgnoresMessage(m) THEN "ignored"
                   ELSE IF cfg = {} THEN "noConfig"
                   ELSE IF ~Includes(The(cfg).channelIds, m.channelId) THEN "unmonitored"
                   ELSE IF AttachmentRuleBlocks(The(cfg), m) THEN "noAttachments"
                   ELSE "none"
       IN  /\ events' = events + 1
           /\ delivered' = Bump(delivered, m.id)
           /\ IF exit # "none"
              THEN /\ hs' = [hs EXCEPT ![s] = Finish(h, exit)]
                   /\ UNCHANGED reactCalls
              ELSE /\ hs' = [hs EXCEPT ![s] = Call([h EXCEPT !.cfg = cfg], "react")]
                   /\ reactCalls' = Bump(reactCalls, m.id)
  /\ UNCHANGED <<warnVars, sbVars, parseVars, loadVars, ix, threadCalls, postedToHallOfFame,
                 hofSends, hofPosted,
                 lifetimes>>

\* index.ts:155, 221-222  cfg.autoThread && channel instanceof TextChannel
ThreadWanted(cfg, msg) == cfg.autoThread /\ msg.inTextChannel

\* index.ts:151-161: where the handler stands once message.react has settled
AfterReact_StopOnFailure(h, ok) ==
  IF ok /\ ThreadWanted(The(h.cfg), h.ev.msg)
  THEN Call(Settled(h, "react", ok), "thread")
  ELSE Finish(Settled(h, "react", ok), "reacted")

AfterReact(h, ok) ==
  IF ThreadWanted(The(h.cfg), h.ev.msg)
  THEN Call(Settled(h, "react", ok), "thread")
  ELSE Finish(Settled(h, "react", ok), "reacted")

\* index.ts:151-161: message.react settles (a rejection is logged); the thread
\* is created when autoThread is set and the channel is a TextChannel
MessageReactReturn(s) ==
  /\ hs[s].kind = "message" /\ hs[s].pc = "react"
  /\ \E ok \in BOOLEAN :
       /\ hs' = [hs EXCEPT ![s] = AfterReact(@, ok)]
       /\ threadCalls' = IF hs'[s].pc = "thread"
                         THEN Bump(threadCalls, hs[s].ev.msg.id) ELSE threadCalls
  /\ UNCHANGED <<warnVars, sbVars, parseVars, loadVars, ix, events, delivered, reactCalls,
                 postedToHallOfFame, hofSends, hofPosted, lifetimes>>

\* index.ts:162-166: threads.create settles (a rejection is logged)
MessageThreadReturn(s) ==
  /\ hs[s].kind = "message" /\ hs[s].pc = "thread"
  /\ \E ok \in BOOLEAN :
       hs' = [hs EXCEPT ![s] = Finish(Settled(@, "thread", ok), "threaded")]
  /\ UNCHANGED <<warnVars, sbVars, parseVars, loadVars, ix, events, delivered, reactCalls,
                 threadCalls, postedToHallOfFame, hofSends, hofPosted, lifetimes>>

\* a record of the starboard file
Config(g, channelIds, emoji, onlyAttachments, autoThread, hof, threshold) ==
  StringifyObject(WithGuild(g, [channelIds |-> channelIds, emoji |-> emoji,
                                onlyAttachments |-> onlyAttachments,
                                autoThread |-> autoThread,
                                hallOfFameChannelId |-> hof, threshold |-> threshold]))

\* what /starboard may have left in the file before the events arrive.  Channel
\* IdN was a text channel when /starboard saved it, as a monitored channel or as
\* the Hall-of-Fame channel, and has been made an announcement channel since.
EventStarboardFiles ==
  { Missing, Garbage,
    [st |-> "json", val |-> <<Config("g1", <<IdA, IdB, IdN>>, "star", TRUE, TRUE, {IdC}, {2})>>],
    [st |-> "json", val |-> <<Config("g2", <<IdC>>, "fire", TRUE, FALSE, {}, {}),
                              Config("g1", <<IdA>>, "star", FALSE, FALSE, {IdC}, {1})>>],
    [st |-> "json", val |-> <<Config("g1", <<IdB, IdA>>, "star", FALSE, TRUE, {IdN}, {1})>>],
    [st |-> "json", val |-> <<Config("g1", <<IdA>>, "star", FALSE, FALSE, {IdC}, {})>>] }

InitEvents ==
  /\ starboardFile \in EventStarboardFiles
  /\ lastSaved = NoSave
  /\ warnFile = Missing
  /\ warnLog = <<>>
  /\ parse = NoParse
  /\ ix = [s \in Slots |-> IdleIx]
  /\ QuietEvents
  /\ CommandsLoaded

NextMessage ==
  \E s \in Slots :
    \/ MessageCreate(s)
    \/ MessageReactReturn(s)
    \/ MessageThreadReturn(s)

SpecMessage == InitEvents /\ [][NextMessage]_vars

(***************************************************************************)
(* The reaction-add handler  (src/src/index.ts:169-285)                    *)
(***************************************************************************)
\* index.ts:236  truthiness of cfg.hallOfFameChannelId and of cfg.threshold
TruthyId(maybe) == maybe # Undefined /\ \A v \in maybe : Len(v) > 0

TruthyNumber(maybe) == maybe # Undefined /\ \A v \in maybe : v # 0

\* index.ts:248  hofChan?.isTextBased() and hofChan.isThread(): voice and
\* announcement channels hold messages too
ThreadTypes == {"PublicThread", "PrivateThread", "AnnouncementThread"}

TextBasedTypes == {"GuildText", "GuildVoice", "GuildAnnouncement"} \cup ThreadTypes

\* index.ts:247-248  the destination is usable
HofChannelUsable(g, id) ==
  /\ id \in DOMAIN ChannelCache[g]
  /\ ChannelCache[g][id] \in TextBasedTypes
  /\ ChannelCache[g][id] \notin ThreadTypes

\* index.ts:241  client.postedToHallOfFame?.has(fullMsg.id)
AlreadyPosted_Never(posted, id) == FALSE

AlreadyPosted(posted, id) == id \in posted

\* index.ts:208-215: the channel checks, up to the await of msg.fetch()
ChannelStage_NoCheck(h) == Call(h, "fetchFull")

ChannelStage(h) ==
  IF ~Includes(The(h.cfg).channelIds, h.ev.msg.channelId) THEN Finish(h, "unmonitored")
  ELSE Call(h, "fetchFull")

\* index.ts:187-205: guild, config and emoji checks, up to the next await
ConfigStage(h) ==
  LET cfg == FindConfig(h.configs, h.ev.msg.guildId)
  IN  IF h.ev.msg.guildId = "none" THEN Finish(h, "noGuild")
      ELSE IF cfg = {} THEN Finish(h, "noConfig")
      ELSE IF h.ev.emoji # The(cfg).emoji THEN Finish(h, "otherEmoji")
      ELSE IF h.ev.msgPartial
           THEN Call([h EXCEPT !.cfg = cfg, !.configs = <<>>], "fetchMessage")
      ELSE ChannelStage([h EXCEPT !.cfg = cfg, !.configs = <<>>])

MessageOf(id) == CHOOSE m \in Messages : m.id = id

\* the reaction-add events of the model: the message reacted to, the emoji, whether
\* the reacting user is a bot, and whether the reaction and the message arrive partial
ReactionEvents ==
  { ReactionEvent(MessageOf("m2"), "star", FALSE, FALSE, FALSE),
    ReactionEvent(MessageOf("m2"), "star", FALSE, TRUE, TRUE),
    ReactionEvent(MessageOf("m2"), "fire", FALSE, FALSE, FALSE),
    ReactionEvent(MessageOf("m2"), "star", TRUE, FALSE, FALSE),
    ReactionEvent(MessageOf("m1"), "star", FALSE, FALSE, FALSE),
    ReactionEvent(MessageOf("m5"), "star", FALSE, FALSE, TRUE),
    ReactionEvent(MessageOf("m4"), "star", FALSE, TRUE, FALSE),
    ReactionEvent(MessageOf("m7"), "star", FALSE, FALSE, TRUE),
    ReactionEvent(MessageOf("m6"), "fire", FALSE, FALSE, FALSE) }

SendFrame == <<warnVars, sbVars, parseVars, loadVars, ix, delivered, reactCalls, lifetimes>>

ReactionFrame == <<SendFrame, hofPosted>>

\* index.ts:172-185: from the delivery of the event to the first await
ReactionAdd(s) ==
  /\ Idle(s)
  /\ events < MaxEvents
  /\ events' = events + 1
  /\ \E ev \in ReactionEvents :
       LET h == [IdleHs EXCEPT !.kind = "reaction", !.ev = ev]
           loaded == [h EXCEPT !.configs = loadStarboardConfigs(starboardFile)]
       IN  hs' = [hs EXCEPT ![s] =
                    IF ev.userBot THEN Finish(h, "botUser")
                    ELSE IF ev.reactionPartial THEN Call(loaded, "fetchReaction")
                    ELSE ConfigStage(loaded)]
  /\ UNCHANGED <<ReactionFrame, threadCalls, postedToHallOfFame, hofSends>>

\* index.ts:179-184, 199-204: the fetch of a partial settles; the catch logs a
\* rejection and returns
AfterFetch_Continue(h, name, ok) == Settled(h, name, ok)

AfterFetch(h, name, ok) ==
  IF ok THEN h ELSE Finish(Settled(h, name, ok), "fetchFailed")

\* index.ts:178-185: reaction.fetch() settles; a rejection is logged and ends the handler
ReactionFetchReturn(s) ==
  /\ hs[s].kind = "reaction" /\ hs[s].pc = "fetchReaction"
  /\ \E ok \in BOOLEAN :
       LET h == AfterFetch(hs[s], "fetchReaction", ok)
       IN  hs' = [hs EXCEPT ![s] = IF h.pc = "done" THEN h ELSE ConfigStage(h)]
  /\ UNCHANGED <<ReactionFrame, events, threadCalls, postedToHallOfFame, hofSends>>

\* index.ts:198-205: msg.fetch() of a partial message settles; a rejection is logged
MessageFetchReturn(s) ==
  /\ hs[s].kind = "reaction" /\ hs[s].pc = "fetchMessage"
  /\ \E ok \in BOOLEAN :
       LET h == AfterFetch(hs[s], "fetchMessage", ok)
       IN  hs' = [hs EXCEPT ![s] = IF h.pc = "done" THEN h ELSE ChannelStage(h)]
  /\ UNCHANGED <<ReactionFrame, events, threadCalls, postedToHallOfFame, hofSends>>

\* index.ts:236-278: the Hall of Fame logic, up to the await of textChan.send.
\* reaction.count is what the platform reports at that moment.
HallOfFame(s, h) ==
  \E count \in 0..MaxCount :
    LET cfg == The(h.cfg)
        m == h.ev.msg
        hof == Prop(cfg, "hallOfFameChannelId")
        threshold == Prop(cfg, "threshold")
        exit == IF ~(TruthyId(hof) /\ TruthyNumber(threshold)) THEN "noHallOfFame"
                ELSE IF ~(count >= The(threshold)) THEN "belowThreshold"
                ELSE IF AlreadyPosted(postedToHallOfFame, m.id) THEN "alreadyPosted"
                ELSE IF ~HofChannelUsable(m.guildId, The(hof)) THEN "noDestination"
                ELSE IF m.author = "null" THEN "authorNull"
                ELSE "none"
    IN  IF exit # "none"
        THEN /\ hs' = [hs EXCEPT ![s] = Finish(h, exit)]
             /\ UNCHANGED hofSends
        ELSE /\ hs' = [hs EXCEPT ![s] = Call([h EXCEPT !.count = count], "send")]
             /\ hofSends' = Bump(hofSends, m.id)

\* index.ts:215-233 and on: the await of msg.fetch() settles (its rejection is
\* not caught); attachments rule; thread creation when autoThread is set, the
\* channel is a TextChannel and the message has no thread yet
FullFetchReturn(s) ==
  /\ hs[s].kind = "reaction" /\ hs[s].pc = "fetchFull"
  /\ \E ok \in BOOLEAN, hasThread \in BOOLEAN :
       LET h == hs[s]
       IN  IF ~ok
           THEN /\ hs' = [hs EXCEPT ![s] = [Settled(h, "fetchFull", ok) EXCEPT
                                               !.pc = "unhandled",
                                               !.exit = "fetchRejected"]]
                /\ UNCHANGED <<threadCalls, hofSends>>
           ELSE IF AttachmentRuleBlocks(The(h.cfg), h.ev.msg)
           THEN /\ hs' = [hs EXCEPT ![s] = Finish(h, "noAttachments")]
                /\ UNCHANGED <<threadCalls, hofSends>>
           ELSE IF ThreadWanted(The(h.cfg), h.ev.msg) /\ ~hasThread
           THEN /\ hs' = [hs EXCEPT ![s] = Call(h, "thread")]
                /\ threadCalls' = Bump(threadCalls, h.ev.msg.id)
                /\ UNCHANGED hofSends
           ELSE /\ HallOfFame(s, h)
                /\ UNCHANGED threadCalls
  /\ UNCHANGED <<ReactionFrame, events, postedToHallOfFame>>

\* index.ts:230-236 and on: threads.create settles (a rejection is logged)
ThreadReturn(s) ==
  /\ hs[s].kind = "reaction" /\ hs[s].pc = "thread"
  /\ \E ok \in BOOLEAN : HallOfFame(s, Settled(hs[s], "thread", ok))
  /\ UNCHANGED <<ReactionFrame, events, threadCalls, postedToHallOfFame>>

\* index.ts:278-281: the posted-set once textChan.send has settled: the add is
\* reached only when the awaited send did not reject
Recorded_EitherWay(posted, id, ok) == posted \cup {id}

Recorded(posted, id, ok) == IF ok THEN posted \cup {id} ELSE posted

\* index.ts:278-282: textChan.send settles; the id is recorded after a send that
\* succeeded, a rejection is not caught
SendReturn(s) ==
  /\ hs[s].kind = "reaction" /\ hs[s].pc = "send"
  /\ \E ok \in BOOLEAN :
       /\ postedToHallOfFame' = Recorded(postedToHallOfFame, hs[s].ev.msg.id, ok)
       /\ hofPosted' = IF ok THEN Bump(hofPosted, hs[s].ev.msg.id) ELSE hofPosted
       /\ hs' = [hs EXCEPT ![s] =
                   IF ok THEN Finish(@, "posted")
                   ELSE [Settled(@, "send", ok) EXCEPT !.pc = "unhandled",
                                                       !.exit = "sendRejected"]]
  /\ UNCHANGED <<SendFrame, events, threadCalls, hofSends>>

NextReaction ==
  \E s \in Slots :
    \/ ReactionAdd(s)
    \/ ReactionFetchReturn(s)
    \/ MessageFetchReturn(s)
    \/ FullFetchReturn(s)
    \/ ThreadReturn(s)
    \/ SendReturn(s)

SpecReaction == InitEvents /\ [][NextReaction]_vars

\* index.ts:56  the set a process starts with
FreshPostedSet_Kept(old) == old

FreshPostedSet(old) == {}

\* the process ends and is started again, once in a behaviour: the handlers in
\* progress are gone with it, the client is constructed anew (index.ts:45-56),
\* and what the platform and the files hold stays
Restart ==
  /\ lifetimes = <<>>
  /\ lifetimes' = Append(lifetimes, postedToHallOfFame)
  /\ postedToHallOfFame' = FreshPostedSet(postedToHallOfFame)
  /\ hs' = [s \in Slots |-> IdleHs]
  /\ ix' = [s \in Slots |-> IdleIx]
  /\ UNCHANGED <<warnVars, sbVars, parseVars, loadVars, events, delivered, reactCalls,
                 threadCalls, hofSends, hofPosted>>

NextRestart ==
  \/ \E s \in Slots :
       \/ ReactionAdd(s)
       \/ ReactionFetchReturn(s)
       \/ MessageFetchReturn(s)
       \/ FullFetchReturn(s)
       \/ ThreadReturn(s)
       \/ SendReturn(s)
  \/ Restart

SpecRestart == InitEvents /\ [][NextRestart]_vars

(***************************************************************************)
(* Claims about the reaction-add handler, checked under SpecReaction       *)
(***************************************************************************)
\* C1: once a message id is in postedToHallOfFame it stays there, and no step
\* taken while it is there makes a Hall-of-Fame send for that message, whatever
\* reaction count the event reports.
C1_NoRepostOncePosted ==
  [][\A id \in MsgIds :
       id \in postedToHallOfFame =>
          /\ id \in postedToHallOfFame'
          /\ hofSends'[id] = hofSends[id]]_vars

\* a later reaction-add on a posted message met the threshold and was turned away
C1_Witness ==
  \E s \in Slots :
    /\ hs[s].kind = "reaction" /\ hs[s].pc = "done"
    /\ hs[s].exit = "alreadyPosted"
    /\ hs[s].ev.msg.id \in postedToHallOfFame
    /\ hofSends[hs[s].ev.msg.id] = 1

(***************************************************************************)
(* Claims about /warn, checked under SpecWarn                              *)
(***************************************************************************)
Range(seq) == {seq[i] : i \in 1..Len(seq)}

IsPrefix(a, b) == Len(a) <= Len(b) /\ \A i \in 1..Len(a) : a[i] = b[i]

\* the caller holds a role named exactly "Staff"
HoldsStaff(in) == "Staff" \in in.staff.roles

TargetIsBot(in) == in.target.kind = "member" /\ in.target.bot

PassesValidation(in) ==
  HoldsStaff(in) /\ in.target.kind = "member" /\ ~in.target.bot

\* the record an execution with these inputs is to leave in the file
ExpectedRecord(in) ==
  [caseId |-> in.caseId, userId |-> in.target.id, staffId |-> in.staff.id,
   reason |-> in.reason, timestamp |-> in.ts]

\* C3: a /warn whose caller holds no role named exactly "Staff" replies with the
\* permission-denied message (its first and only command reply), writes nothing
\* to the warnings file and sends no DM, at the dispatch and at every later step.
C3_NonStaffDenied ==
  [][\A s \in Slots :
       (ix'[s].cmd = "warn" /\ ~HoldsStaff(ix'[s].in)) =>
          /\ ix'[s].replies # <<>>
          /\ ix'[s].replies[1] = "denied"
          /\ Range(ix'[s].replies) \cap {"warnSummary", "invalidTarget"} = {}
          /\ ix'[s].writes = 0
          /\ ix'[s].dms = 0
          /\ (ix'[s] # ix[s] => warnFile' = warnFile)]_vars

C3_Witness ==
  \E s \in Slots :
    /\ ix[s].cmd = "warn" /\ ix[s].pc = "done"
    /\ "staff" \in ix[s].in.staff.roles /\ ~HoldsStaff(ix[s].in)
    /\ ix[s].replies = <<"denied">>

\* C4 as claimed: every /warn whose target is a bot replies with the
\* invalid-target message and writes nothing.
C4_BotTargetAlwaysInvalid ==
  \A s \in Slots :
    (ix[s].cmd = "warn" /\ TargetIsBot(ix[s].in)) =>
       /\ ix[s].replies # <<>>
       /\ ix[s].replies[1] = "invalidTarget"
       /\ ix[s].writes = 0

\* C4 amended: a /warn whose target is a bot never writes to the warnings file
\* and sends no DM; its reply is the invalid-target message when the caller holds
\* the Staff role and the permission-denied message otherwise (the role check
\* comes first).
C4_BotTargetRejected ==
  [][\A s \in Slots :
       (ix'[s].cmd = "warn" /\ TargetIsBot(ix'[s].in)) =>
          /\ ix'[s].replies # <<>>
          /\ ix'[s].replies[1] =
               (IF HoldsStaff(ix'[s].in) THEN "invalidTarget" ELSE "denied")
          /\ "warnSummary" \notin Range(ix'[s].replies)
          /\ ix'[s].writes = 0
          /\ ix'[s].dms = 0
          /\ (ix'[s] # ix[s] => warnFile' = warnFile)]_vars

C4_Witness ==
  \E s \in Slots :
    /\ ix[s].cmd = "warn" /\ ix[s].pc = "done"
    /\ TargetIsBot(ix[s].in) /\ HoldsStaff(ix[s].in)
    /\ ix[s].replies = <<"invalidTarget">>

\* C5: after N validated /warn executions the file reloads to exactly the N
\* records built by those executions, in execution order, and a step never
\* changes or removes a record already in the file.
C5_RoundTrip ==
  /\ [](LoadWarnings(warnFile) = warnLog)
  /\ [][IsPrefix(LoadWarnings(warnFile), LoadWarnings(warnFile'))]_vars

C5_Witness ==
  /\ Len(warnLog) >= 2
  /\ warnLog[1] # warnLog[2]
  /\ warnFile.st = "json"
  /\ JSONparse(warnFile) = warnLog

\* C10: once the DM of a validated /warn has settled, sent or failed alike, the
\* record is in the file and the summary embed is the command's reply; while the
\* DM is pending the two outcomes lead to states that differ in nothing but the
\* recorded DM result.
C10_DmFailureHarmless ==
  \A s \in Slots :
    (ix[s].cmd = "warn" /\ PassesValidation(ix[s].in)) =>
       /\ ix[s].writes = 1
       /\ ExpectedRecord(ix[s].in) \in Range(LoadWarnings(warnFile))
       /\ ix[s].pc = "dm" =>
            [AfterDm(ix[s], TRUE) EXCEPT !.dm = "settled"]
              = [AfterDm(ix[s], FALSE) EXCEPT !.dm = "settled"]
       /\ ix[s].pc # "dm" =>
            /\ ix[s].dm \in {"sent", "failed"}
            /\ ix[s].replies # <<>>
            /\ ix[s].replies[1] = "warnSummary"

C10_Witness ==
  \E s \in Slots :
    /\ ix[s].cmd = "warn" /\ ix[s].pc = "done"
    /\ ix[s].dm = "failed"
    /\ ix[s].replies = <<"warnSummary">>
    /\ ExpectedRecord(ix[s].in) \in Range(LoadWarnings(warnFile))

(***************************************************************************)
(* The channel parsing of /starboard as a function of the channels string  *)
(* and the guild: SpecParse draws the inputs and applies part_000:153-163. *)
(***************************************************************************)
Tokens ==
  { Mention(IdA), IdB, NotAnId, Mention(IdD), IdV, IdU,
    Rep(5, 16),                   \* a digit short of an id
    <<Ch.a>> \o IdA,              \* an id glued to a letter
    IdC \o <<2>>,                 \* 20 digits
    IdC \o IdV }                  \* 36 digits

RECURSIVE InputsOfLen(_)
InputsOfLen(n) ==
  IF n = 1 THEN Tokens
  ELSE {Join(a, b) : a \in InputsOfLen(n - 1), b \in Tokens}

ChannelInputs == UNION {InputsOfLen(n) : n \in 1..MaxTokens}

\* part_000:153-163
ExtractChannels ==
  /\ ~parse.done
  /\ parse' = [parse EXCEPT !.done = TRUE,
                            !.out = ValidChannelIds(parse.guildId, parse.channels)]
  /\ UNCHANGED <<warnVars, sbVars, ix, evVars, loadVars>>

InitParse ==
  /\ parse \in {[guildId |-> g, channels |-> c, done |-> FALSE, out |-> <<>>] :
                  g \in Guilds, c \in ChannelInputs}
  /\ starboardFile = Missing
  /\ lastSaved = NoSave
  /\ warnFile = Missing
  /\ warnLog = <<>>
  /\ ix = [s \in Slots |-> IdleIx]
  /\ QuietEvents
  /\ CommandsLoaded

NextParse == ExtractChannels

SpecParse == InitParse /\ [][NextParse]_vars

(***************************************************************************)
(* Claims about /starboard                                                 *)
(***************************************************************************)
\* the record of the file holds what was saved: the same values, and a key for
\* an optional field exactly when the field was given
SameAsSaved(r, g, data) ==
  /\ r.guildId = g
  /\ r.channelIds = data.channelIds
  /\ r.emoji = data.emoji
  /\ r.onlyAttachments = data.onlyAttachments
  /\ r.autoThread = data.autoThread
  /\ \A k \in OptionalKeys : (IF k \in DOMAIN r THEN {r[k]} ELSE {}) = data[k]

\* C2: the starboard file never holds two records of one guild, and for every
\* guild saved by /starboard it holds exactly one record, which is the data of
\* the guild's latest save.
C2_OneRecordPerGuild ==
  LET recs == starboardFile.val
  IN  /\ \A i, j \in 1..Len(recs) : recs[i].guildId = recs[j].guildId => i = j
      /\ \A g \in Guilds :
           lastSaved[g] # {} =>
             /\ starboardFile.st = "json"
             /\ \E i \in 1..Len(recs) :
                  \A data \in lastSaved[g] : SameAsSaved(recs[i], g, data)

\* a save for g1 has replaced the record an earlier lifetime left for g1
C2_Witness ==
  /\ starboardFile.st = "json"
  /\ Len(starboardFile.val) = 2
  /\ starboardFile.val[1] = OldConfig("g2", IdC)
  /\ starboardFile.val[2].guildId = "g1"
  /\ starboardFile.val[2].emoji = "fire"
  /\ "threshold" \notin DOMAIN starboardFile.val[2]
  /\ lastSaved["g1"] # {}

\* the 17-19 digit strings that occur anywhere in str
IdSubstrings(str) ==
  LET spans == {p \in (1..Len(str)) \X (MinIdDigits..MaxIdDigits) :
                  /\ p[1] + p[2] - 1 <= Len(str)
                  /\ \A k \in p[1]..(p[1] + p[2] - 1) : IsDigit(str[k])}
  IN  {SubSeq(str, p[1], p[1] + p[2] - 1) : p \in spans}

TextChannelsOf(g) ==
  {id \in DOMAIN ChannelCache[g] : ChannelCache[g][id] = "GuildText"}

\* no identifier of the channels input resolves to a text channel of the guild
NoIdResolves(g, str) == IdSubstrings(str) \cap TextChannelsOf(g) = {}

NoIdResolvesOf ==
  [in \in StarboardInvocations |-> NoIdResolves(in.guildId, in.channels)]

\* C9: a /starboard in which no identifier of the channels input resolves to a
\* text channel replies with the no-valid-channels error and never writes the
\* starboard file: the step that handles it leaves the file as it was.
C9_NoValidChannelsNoSave ==
  [][\A s \in Slots :
       (ix'[s].cmd = "starboard" /\ NoIdResolvesOf[ix'[s].in]) =>
          /\ ix'[s].replies # <<>>
          /\ ix'[s].replies[1] = "noValidChannels"
          /\ "configured" \notin Range(ix'[s].replies)
          /\ ix'[s].writes = 0
          /\ (ix'[s] # ix[s] => starboardFile' = starboardFile /\ lastSaved' = lastSaved)]_vars

\* the error was the reply and the guild's earlier record is still in the file
C9_Witness ==
  \E s \in Slots :
    /\ ix[s].cmd = "starboard" /\ ix[s].pc = "done"
    /\ NoIdResolvesOf[ix[s].in]
    /\ ix[s].replies = <<"noValidChannels">>
    /\ \E i \in 1..Len(starboardFile.val) :
         starboardFile.val[i] = OldConfig(ix[s].in.guildId, IdA)

\* the maximal digit runs of str that are 17 to 19 digits long, in order
RECURSIVE IdRunsFrom(_, _)
IdRunsFrom(str, i) ==
  IF i > Len(str) THEN <<>>
  ELSE IF ~IsDigit(str[i]) THEN IdRunsFrom(str, i + 1)
  ELSE LET len == DigitRun(str, i, Len(str))
       IN  (IF len \in MinIdDigits..MaxIdDigits
            THEN <<SubSeq(str, i, i + len - 1)>> ELSE <<>>)
           \o IdRunsFrom(str, i + len)

IdRuns(str) == IdRunsFrom(str, 1)

FirstAt(seq, x) == CHOOSE i \in 1..Len(seq) : seq[i] = x /\ \A j \in 1..(i - 1) : seq[j] # x

NoDuplicates(seq) == \A a, b \in 1..Len(seq) : seq[a] = seq[b] => a = b

\* out holds the members of seq that are text channels of g, each once, in the
\* order of their first occurrence in seq
DistinctTextInOrder(out, seq, g) ==
  /\ NoDuplicates(out)
  /\ Range(out) = Range(seq) \cap TextChannelsOf(g)
  /\ \A a, b \in 1..Len(out) : a < b => FirstAt(seq, out[a]) < FirstAt(seq, out[b])

\* C8 as claimed: validChannelIds is exactly the distinct 17-19 digit identifiers
\* occurring in the channels string, in order of first occurrence, that resolve to
\* a text channel; nothing else contributes.  An identifier occurring in the
\* string is read either way the words allow: as a digit run of 17 to 19 digits,
\* or as any 17-19 digit substring.
C8_ExactlyTheIdentifiers ==
  parse.done =>
    \/ DistinctTextInOrder(parse.out, IdRuns(parse.channels), parse.guildId)
    \/ /\ NoDuplicates(parse.out)
       /\ Range(parse.out) = IdSubstrings(parse.channels) \cap TextChannelsOf(parse.guildId)

\* the digit-run reading does hold of the strings whose digit runs are at most
\* 19 digits long
ShortRunsParseAsClaimed ==
  (parse.done /\ \A i \in 1..Len(parse.channels) :
                   DigitRun(parse.channels, i, Len(parse.channels)) <= MaxIdDigits) =>
    DistinctTextInOrder(parse.out, IdRuns(parse.channels), parse.guildId)

(***************************************************************************)
(* Claims about the message-create handler, checked under SpecMessage      *)
(***************************************************************************)
\* the records of guild g in the starboard file
GuildRecords(g) ==
  IF starboardFile.st # "json" THEN {}
  ELSE {starboardFile.val[i] : i \in {k \in 1..Len(starboardFile.val) :
                                        starboardFile.val[k].guildId = g}}

\* C6: when the guild's config has onlyAttachments = true, no react call and no
\* thread creation is ever made for a message with zero attachments.
C6_NoReactWithoutAttachment ==
  \A m \in Messages :
    ((\E r \in GuildRecords(m.guildId) : r.onlyAttachments) /\ m.attachments = 0) =>
       reactCalls[m.id] = 0 /\ threadCalls[m.id] = 0

\* such a message, posted in a monitored channel, was delivered and handled
C6_Witness ==
  \E s \in Slots, m \in Messages :
    /\ hs[s].kind = "message" /\ hs[s].pc = "done" /\ hs[s].ev.msg = m
    /\ m.attachments = 0 /\ m.author = "user"
    /\ \E r \in GuildRecords(m.guildId) :
         r.onlyAttachments /\ Includes(r.channelIds, m.channelId)
    /\ delivered[m.id] >= 1
    /\ reactCalls[m.id] = 0

\* non-bot author, configured guild, monitored channel, attachment rule satisfied
Qualifies(m) ==
  /\ m.author = "user"
  /\ \E r \in GuildRecords(m.guildId) :
       /\ Includes(r.channelIds, m.channelId)
       /\ r.onlyAttachments => m.attachments > 0

\* C7 as claimed: a qualifying message gets exactly one react call in total,
\* however often its message-create event is delivered.
C7_ExactlyOneReact ==
  \A m \in Messages :
    (Qualifies(m) /\ delivered[m.id] >= 1) => reactCalls[m.id] = 1

\* what the handler does instead: one react call per delivery of a qualifying
\* message, none for any other message
OneReactPerDelivery ==
  \A m \in Messages :
    reactCalls[m.id] = IF Qualifies(m) THEN delivered[m.id] ELSE 0

(***************************************************************************)
(* Claims about the readers of the two files                               *)
(***************************************************************************)
\* the file an empty collection is stored as
EmptyFile == JSONstringify(<<>>)

\* the file is missing or its text is not JSON
Unreadable(file) == ~existsSync(file) \/ ParseThrows(file)

\* slot s takes up a new invocation of cmd in this step
Dispatched(s, cmd) == Free(s) /\ ix'[s] # ix[s] /\ ix'[s].cmd = cmd

\* C11 as claimed, for /starboard: a save that finds the starboard file missing
\* or malformed proceeds as if the file held an empty array, so it writes the
\* array of its own record and replies with the confirmation.
C11_UnreadableFileReadAsEmpty ==
  [][\A s \in Slots :
       (/\ Dispatched(s, "starboard")
        /\ Unreadable(starboardFile)
        /\ ConfigDataOf[ix'[s].in].channelIds # <<>>) =>
          /\ starboardFile' = saveConfig(EmptyFile, ix'[s].in.guildId,
                                         ConfigDataOf[ix'[s].in])
          /\ ix'[s].replies = <<"configured">>]_vars

\* the other readers do as claimed.  /warn (under SpecWarn): a validated /warn
\* that finds the warnings file missing, blank or malformed writes the array of
\* its own record.
WarnReadsUnreadableAsEmpty ==
  [][\A s \in Slots :
       (/\ Dispatched(s, "warn")
        /\ PassesValidation(ix'[s].in)
        /\ Unreadable(warnFile)) =>
          warnFile' = JSONstringify(<<ExpectedRecord(ix'[s].in)>>)]_vars

\* the two event handlers (under SpecMessage and SpecReaction): with the
\* starboard file missing or malformed every event ends as it does for a guild
\* that has no config, and nothing is rejected out of the handler.
HandlersReadUnreadableAsEmpty ==
  Unreadable(starboardFile) =>
    \A s \in Slots :
      /\ hs[s].cfg = {}
      /\ hs[s].pc \in {"idle", "done", "fetchReaction"}
      /\ hs[s].pc = "done" =>
           hs[s].exit \in {"ignored", "noConfig", "botUser", "noGuild", "fetchFailed"}
      /\ Range(hs[s].calls) \subseteq {"fetchReaction"}

(***************************************************************************)
(* The slash-command dispatcher with /ping and /starboard                  *)
(***************************************************************************)
\* the starboard file is malformed, which makes saveConfig throw inside execute
InitInteraction ==
  /\ warnFile = Missing
  /\ warnLog = <<>>
  /\ starboardFile = Garbage
  /\ lastSaved = NoSave
  /\ parse = NoParse
  /\ ix = [s \in Slots |-> IdleIx]
  /\ QuietEvents
  /\ CommandsLoaded

NextInteraction ==
  \E s \in Slots :
    \/ PingExecute(s)
    \/ PingDeferReturn(s)
    \/ PingFetchReturn(s)
    \/ StarboardExecute(s)
    \/ ReplyReturn(s)
    \/ ErrReplyReturn(s)

SpecInteraction == InitInteraction /\ [][NextInteraction]_vars

FailureMessages == {"errorReply", "errorFollowUp"}

\* how many generic failure messages the interaction was sent
Failures(h) == Cardinality({i \in 1..Len(h.replies) : h.replies[i] \in FailureMessages})

\* C12: an execute that fails is caught by the dispatcher, which makes one call
\* with the generic failure message: followUp when the interaction was deferred
\* or replied to before the failure, reply otherwise.  No interaction is ever
\* sent the failure message twice, and nothing is left unhandled except a
\* rejection of the failure message itself.
C12_FailureMessageOnce ==
  /\ [](\A s \in Slots : Failures(ix[s]) <= 1)
  /\ [][\A s \in Slots :
          /\ (ix'[s] # ix[s] /\ ix'[s].pc = "errReply") =>
               LET fresh == Free(s)
                   before == IF fresh THEN <<>> ELSE ix[s].replies
                   acknowledged == ~fresh /\ (ix[s].deferred \/ ix[s].replied)
               IN  ix'[s].replies =
                     Append(before, IF acknowledged THEN "errorFollowUp"
                                                    ELSE "errorReply")
          /\ (ix'[s] # ix[s] /\ Failures(ix'[s]) > 0) =>
               \/ ix'[s].pc = "errReply"
               \/ ix[s].pc = "errReply" /\ ix'[s].replies = ix[s].replies
          /\ (ix'[s] # ix[s] /\ ix'[s].pc = "unhandled") => ix[s].pc = "errReply"]_vars

\* one interaction failed after its deferral and got the follow-up, another
\* failed before any acknowledgement and got the initial reply
C12_Witness ==
  \E s, t \in Slots :
    /\ ix[s].pc = "done" /\ ix[s].deferred
    /\ ix[s].replies = <<"errorFollowUp">>
    /\ ix[t].pc = "done" /\ ~ix[t].deferred
    /\ ix[t].replies = <<"errorReply">>

(***************************************************************************)
(* Claims about failures and overlap in the event handlers, checked under  *)
(* SpecReaction                                                            *)
(***************************************************************************)
\* the awaits of the two handlers that sit inside a try/catch
CaughtCalls == {"react", "thread", "fetchReaction", "fetchMessage"}

\* C13 as claimed: no rejected platform call escapes a handler, so no handler
\* execution ends in an unhandled rejection.
C13_NoFailureEscapes ==
  \A s \in Slots : hs[s].pc # "unhandled"

\* what holds: a rejection of a call made inside a try/catch never escapes; the
\* only rejections that do are those of msg.fetch() at index.ts:215 and of
\* textChan.send at index.ts:278
OnlyUncaughtCallsEscape ==
  \A s \in Slots :
    hs[s].pc = "unhandled" =>
      /\ hs[s].failed \ CaughtCalls # {}
      /\ hs[s].calls[Len(hs[s].calls)] \in {"fetchFull", "send"}
      /\ hs[s].calls[Len(hs[s].calls)] \in hs[s].failed

\* C14 as claimed: at most one handler execution is in progress at any time.
C14_OneHandlerAtATime ==
  Cardinality({s \in Slots : ~Idle(s)}) <= 1

(***************************************************************************)
(* Claims about races on the files within one process                      *)
(***************************************************************************)
\* slot s holds a validated /warn that has written its record
Wrote(s) == ix[s].cmd = "warn" /\ ix[s].writes = 1

\* two validated /warn executions overlap: each has written and is parked on
\* the await of its DM
WarnsOverlap ==
  \A s \in Slots : Wrote(s) /\ ix[s].pc = "dm"

\* a warning built by a /warn that wrote has no record in the file
LostWarning == \E i \in 1..Len(warnLog) : warnLog[i] \notin Range(LoadWarnings(warnFile))

\* C15 as claimed, in the scenario it describes: of two /warn executions that
\* overlap in one process, one has read the file before the other wrote it, so a
\* completed warn has no record in the file.
C15_OverlappingWarnsLoseARecord ==
  WarnsOverlap => LostWarning

\* C15 amended: within one process no update is lost.  The read, the push and
\* the write of a /warn lie between two awaits, so every /warn that has written,
\* overlapping another or not, has its record in the file, and the file holds a
\* record for each of them.
C15_NoLostUpdate ==
  /\ ~LostWarning
  /\ Len(LoadWarnings(warnFile)) = Len(warnLog)
  /\ \A s \in Slots :
       Wrote(s) => ExpectedRecord(ix[s].in) \in Range(LoadWarnings(warnFile))

\* two overlapping executions wrote two different records and both are in the file
C15_Witness ==
  /\ WarnsOverlap
  /\ \E s, t \in Slots :
       /\ ExpectedRecord(ix[s].in) # ExpectedRecord(ix[t].in)
       /\ {ExpectedRecord(ix[s].in), ExpectedRecord(ix[t].in)}
            \subseteq Range(LoadWarnings(warnFile))

\* the same of /starboard (under SpecStarboard): the latest save of every guild
\* is in the file, whatever executions overlap
SavesAreNotLost ==
  \A g \in Guilds :
    \A data \in lastSaved[g] :
      \E i \in 1..Len(starboardFile.val) : SameAsSaved(starboardFile.val[i], g, data)

(***************************************************************************)
(* Claims about the posted-set across a restart, checked under SpecRestart *)
(***************************************************************************)
\* the message ids posted to the Hall of Fame in a lifetime that has ended
PostedBefore == UNION {lifetimes[i] : i \in 1..Len(lifetimes)}

\* C16: the restart leaves the posted-set empty, whatever it held, and from then
\* on a reaction-add is turned away as already posted only for an id posted in
\* the new lifetime: ids posted before the restart are not remembered.
C16_PostedSetLostOnRestart ==
  /\ [][lifetimes' # lifetimes => postedToHallOfFame' = {}]_vars
  /\ [](\A s \in Slots :
          (hs[s].pc = "done" /\ hs[s].exit = "alreadyPosted") =>
             hs[s].ev.msg.id \in postedToHallOfFame)
  /\ [][\A id \in MsgIds :
          hofSends'[id] > hofSends[id] => id \notin postedToHallOfFame]_vars

\* a message posted before the restart was sent to the Hall of Fame a second
\* time after it, and that second send succeeded
C16_Witness ==
  \E id \in PostedBefore :
    /\ id \in postedToHallOfFame
    /\ hofSends[id] = 2

(***************************************************************************)
(* Claims about what the reaction-add handler does, checked under          *)
(* SpecReaction                                                            *)
(***************************************************************************)
\* the execution in slot s makes its Hall-of-Fame send in this step
Sends(s) == hs'[s].pc = "send" /\ hs[s].pc # "send"

\* the Hall-of-Fame channel and the threshold of the config the execution found
HofOf(h) == The(Prop(The(h.cfg), "hallOfFameChannelId"))

ThresholdOf(h) == The(Prop(The(h.cfg), "threshold"))

\* the conditions of a send other than the one on the destination
SendConditions(s) ==
  LET h == hs'[s]
      cfg == The(h.cfg)
      m == h.ev.msg
  IN  /\ h.cfg \in {FindConfig(loadStarboardConfigs(starboardFile), m.guildId)} \ {{}}
      /\ {"hallOfFameChannelId", "threshold"} \subseteq DOMAIN cfg
      /\ h.ev.emoji = cfg.emoji
      /\ ~h.ev.userBot
      /\ Includes(cfg.channelIds, m.channelId)
      /\ cfg.onlyAttachments => m.attachments > 0
      /\ h.count >= ThresholdOf(h)
      /\ m.id \notin postedToHallOfFame

\* a send that succeeded leaves the message id in the posted-set
PostedIsRecorded(s) ==
  (hs'[s] # hs[s] /\ hs'[s].pc = "done" /\ hs'[s].exit = "posted") =>
     hs'[s].ev.msg.id \in postedToHallOfFame'

\* C17 as claimed: a Hall-of-Fame send is made only when the config has a channel
\* and a threshold, the emoji matches, the channel is monitored, the attachment
\* rule is satisfied, the count meets the threshold, the id is not in the
\* posted-set and the destination is a text channel that is not a thread; after
\* a send that succeeded the id is in the posted-set.
C17_SendOnlyToTextChannel ==
  [][\A s \in Slots :
       /\ Sends(s) =>
            /\ SendConditions(s)
            /\ IsTextChannel(hs'[s].ev.msg.guildId, HofOf(hs'[s]))
       /\ PostedIsRecorded(s)]_vars

\* what holds: the same with the destination the code accepts, any channel of
\* the guild that holds messages and is not a thread
SendOnlyToUsableChannel ==
  [][\A s \in Slots :
       /\ Sends(s) =>
            /\ SendConditions(s)
            /\ HofChannelUsable(hs'[s].ev.msg.guildId, HofOf(hs'[s]))
       /\ PostedIsRecorded(s)]_vars

\* the event is one the handler is to turn away: the reacting user is a bot, the
\* guild has no config, the emoji is not the configured one, or the channel is
\* not monitored
TurnedAway(ev) ==
  LET cfg == FindConfig(loadStarboardConfigs(starboardFile), ev.msg.guildId)
  IN  \/ ev.userBot
      \/ cfg = {}
      \/ ev.emoji # The(cfg).emoji
      \/ ~Includes(The(cfg).channelIds, ev.msg.channelId)

\* the step is one of the execution in slot s
StepOf(s) == hs'[s] # hs[s]

\* C18: the execution that handles such an event creates no thread and makes no
\* Hall-of-Fame send, and none of its steps changes the posted-set.
C18_TurnedAwayEventsDoNothing ==
  /\ [](\A s \in Slots :
          (hs[s].kind = "reaction" /\ TurnedAway(hs[s].ev)) =>
             /\ Range(hs[s].calls) \cap {"thread", "send"} = {}
             /\ hs[s].exit # "posted")
  /\ [][\A s \in Slots :
          (StepOf(s) /\ hs'[s].kind = "reaction" /\ TurnedAway(hs'[s].ev)) =>
             UNCHANGED <<threadCalls, hofSends, postedToHallOfFame>>]_vars

\* a reaction with the configured emoji on a message of a channel that is not
\* monitored was turned away once the partial message had been fetched
C18_Witness ==
  \E s \in Slots :
    /\ hs[s].kind = "reaction" /\ hs[s].pc = "done"
    /\ hs[s].exit = "unmonitored"
    /\ hs[s].calls = <<"fetchMessage">>
    /\ hs[s].cfg # {}
    /\ hs[s].ev.emoji = The(hs[s].cfg).emoji

PartialFetches == {"fetchReaction", "fetchMessage"}

\* C19: once the fetch of a partial reaction or of a partial message has been
\* rejected the execution has ended by a plain return, having made no call but
\* the fetches; the step in which the rejection arrives creates no thread, sends
\* nothing and leaves the posted-set as it is.
C19_FailedFetchEndsQuietly ==
  /\ [](\A s \in Slots :
          (hs[s].kind = "reaction" /\ hs[s].failed \cap PartialFetches # {}) =>
             /\ hs[s].pc = "done"
             /\ hs[s].exit = "fetchFailed"
             /\ Range(hs[s].calls) \subseteq PartialFetches)
  /\ [][\A s \in Slots :
          (hs'[s].failed \cap PartialFetches # {} /\ StepOf(s)
           /\ hs[s].pc \in PartialFetches) =>
             UNCHANGED <<threadCalls, hofSends, postedToHallOfFame>>]_vars

\* the reaction was fetched, then the fetch of the partial message was rejected
C19_Witness ==
  \E s \in Slots :
    /\ hs[s].kind = "reaction" /\ hs[s].pc = "done"
    /\ hs[s].calls = <<"fetchReaction", "fetchMessage">>
    /\ hs[s].failed = {"fetchMessage"}
    /\ hs[s].exit = "fetchFailed"

(***************************************************************************)
(* Claims about failures in the message-create handler, checked under      *)
(* SpecMessage                                                             *)
(***************************************************************************)
\* the execution in slot s has made its react call and seen it settle
ReactSettled(s) ==
  hs[s].kind = "message" /\ hs[s].calls # <<>> /\ hs[s].pc # "react"

\* react is called once, first, and never again; a rejected thread creation is
\* the last thing the execution did; nothing is rejected out of the handler
ReactOnceThreadLast(s) ==
  /\ hs[s].calls \in {<<>>, <<"react">>, <<"react", "thread">>}
  /\ hs[s].failed \subseteq Range(hs[s].calls)
  /\ "thread" \in hs[s].failed => hs[s].pc = "done"
  /\ hs[s].pc # "unhandled"

\* C20 as claimed: one react call and no retry; once it has settled, rejected or
\* not, the thread creation is attempted whenever autoThread is enabled; a
\* rejected thread creation ends the handler normally.
C20_ThreadAttemptedWhenAutoThread ==
  \A s \in Slots :
    hs[s].kind = "message" =>
      /\ ReactOnceThreadLast(s)
      /\ (ReactSettled(s) /\ The(hs[s].cfg).autoThread) =>
            "thread" \in Range(hs[s].calls)

\* C20 amended: the thread creation is attempted when autoThread is enabled and
\* the message's channel is a TextChannel, and in no other case; whether the
\* react call was rejected makes no difference.
C20_ThreadAttemptedWhenWanted ==
  \A s \in Slots :
    hs[s].kind = "message" =>
      /\ ReactOnceThreadLast(s)
      /\ ReactSettled(s) =>
           ("thread" \in Range(hs[s].calls)
              <=> ThreadWanted(The(hs[s].cfg), hs[s].ev.msg))

\* the react call was rejected, the thread creation was attempted all the same
\* and was rejected too, and the handler ended
C20_Witness ==
  \E s \in Slots :
    /\ hs[s].kind = "message" /\ hs[s].pc = "done"
    /\ hs[s].calls = <<"react", "thread">>
    /\ hs[s].failed = {"react", "thread"}

(***************************************************************************)
(* The command loader run over other folders, and the dispatcher's lookup  *)
(***************************************************************************)
MaxModules == 3           \* entries found under commands/

\* entries a commands/ folder may hold
EntryPool ==
  Range(RepositoryEntries) \cup
  { Entry("old/ping.js", "file", "js", {"ping"}, "function"),
    Entry("staff/notes.ts", "file", "ts", {}, "function"),
    Entry("members/help.js", "file", "js", {"help"}, "undefined"),
    Entry("staff/kick.ts", "file", "ts", {"kick"}, "string"),
    Entry("members/blank.ts", "file", "ts", {""}, "function"),
    Entry("staff/warnings.json", "file", "json", {"warnings"}, "function"),
    Entry("ban.ts", "rootFile", "ts", {"ban"}, "function") }

\* the listings of at most MaxModules entries, no entry twice
RECURSIVE ListingsOfLen(_)
ListingsOfLen(n) ==
  IF n = 0 THEN {<<>>}
  ELSE {Append(l, e) : l \in ListingsOfLen(n - 1), e \in EntryPool}

Listings ==
  {l \in UNION {ListingsOfLen(n) : n \in 0..MaxModules} :
     \A i, j \in 1..Len(l) : l[i] = l[j] => i = j}

Interactions ==
  { Interaction(TRUE, "ping"), Interaction(TRUE, "warn"), Interaction(TRUE, "help"),
    Interaction(TRUE, "kick"), Interaction(TRUE, "ban"), Interaction(FALSE, "ping"),
    Interaction(FALSE, "none") }

\* index.ts:65-84  one turn of the loops: the next entry is skipped or registered
LoadModule ==
  /\ toLoad # <<>>
  /\ LET e == Head(toLoad)
     IN  commands' = IF IsCommandFile(e) /\ IsLoadable(e)
                     THEN SetCommand(commands, The(e.name), e.path)
                     ELSE commands
  /\ toLoad' = Tail(toLoad)
  /\ UNCHANGED <<discovered, invoked, warnVars, sbVars, parseVars, ix, evVars>>

\* index.ts:118-126  an interaction arrives once the client is up: it is
\* dropped unless it is a chat-input command whose name is in the map, and then
\* the module's execute is called, which acknowledges the interaction
HandleInteraction ==
  /\ toLoad = <<>>
  /\ \E in \in Interactions :
       invoked' =
         IF ~in.chatInput \/ in.commandName \notin DOMAIN commands
         THEN [in |-> in, handler |-> {}, replies |-> 0]
         ELSE [in |-> in, handler |-> {commands[in.commandName]}, replies |-> 1]
  /\ UNCHANGED <<discovered, toLoad, commands, warnVars, sbVars, parseVars, ix, evVars>>

InitLoader ==
  /\ discovered \in Listings
  /\ toLoad = discovered
  /\ commands = NoCommands
  /\ invoked = NoDispatch
  /\ warnFile = Missing
  /\ warnLog = <<>>
  /\ starboardFile = Missing
  /\ lastSaved = NoSave
  /\ parse = NoParse
  /\ ix = [s \in Slots |-> IdleIx]
  /\ QuietEvents

NextLoader == LoadModule \/ HandleInteraction

SpecLoader == InitLoader /\ [][NextLoader]_vars

\* the discovered modules (files of a subfolder ending in .ts or .js) that export
\* both a data.name and an execute function, by their position in the listing
ExportsBoth(e) ==
  e.kind = "file" /\ e.ext \in {"ts", "js"} /\ e.name \notin {{}, {""}}
  /\ e.exec = "function"

ValidAt == {i \in 1..Len(discovered) : ExportsBoth(discovered[i])}

Registered == {commands[n] : n \in DOMAIN commands}

\* an interaction that is not a chat-input command, or that names no command of
\* the map, is dropped: no handler runs and nothing is sent
UnknownInteractionsDropped ==
  (~invoked.in.chatInput \/ invoked.in.commandName \notin DOMAIN commands) =>
     invoked.handler = {} /\ invoked.replies = 0

\* C21 as claimed: once the loader has run, the modules in the map are exactly
\* the discovered modules that export both, each under its own name, and an
\* interaction that is not a chat-input command or names no command of the map
\* is dropped.
C21_MapHoldsExactlyTheValidModules ==
  toLoad = <<>> =>
    /\ Registered = {discovered[i].path : i \in ValidAt}
    /\ \A i \in ValidAt : commands[The(discovered[i].name)] = discovered[i].path
    /\ UnknownInteractionsDropped

\* C21 amended: the keys of the map are exactly the names exported by those
\* modules, and each name maps to the last discovered of the modules that
\* export it; when no two of them share a name these are all of them.
C21_MapHoldsLastValidModulePerName ==
  toLoad = <<>> =>
    /\ DOMAIN commands = {The(discovered[i].name) : i \in ValidAt}
    /\ \A n \in DOMAIN commands :
         \E i \in ValidAt :
           /\ discovered[i].name = {n}
           /\ commands[n] = discovered[i].path
           /\ \A j \in ValidAt : discovered[j].name = {n} => j <= i
    /\ (\A i, j \in ValidAt : discovered[i].name = discovered[j].name => i = j) =>
          Registered = {discovered[i].path : i \in ValidAt}
    /\ UnknownInteractionsDropped

\* two modules exported the name ping and one had no execute: the map holds the
\* later ping module alone, and a /help interaction was dropped
C21_Witness ==
  /\ toLoad = <<>>
  /\ Len(discovered) = 3
  /\ discovered[1].path = "members/ping.ts"
  /\ discovered[2].path = "members/help.js"
  /\ discovered[3].path = "old/ping.js"
  /\ commands = ("ping" :> "old/ping.js")
  /\ invoked = [in |-> Interaction(TRUE, "help"), handler |-> {}, replies |-> 0]

\* the repository's own commands/ folder loads to the map the other
\* specifications start from
RepositoryLoadsAsAssumed ==
  (discovered = RepositoryEntries /\ toLoad = <<>>) => commands = RepositoryCommands

(***************************************************************************)
(* Claims about the posted-set and the sends of one process lifetime,      *)
(* checked under SpecReaction                                              *)
(***************************************************************************)

\* C22: within one process lifetime each message id is sent to the Hall-of-Fame
\* channel at most once, whatever the interleaving of the reaction-add events on
\* that message, two handlers overlapping between the check of the posted-set
\* and the add to it included.
C22_SentAtMostOnce == \A id \in MsgIds : hofPosted[id] <= 1

\* the step of slot s in which a send that succeeded is recorded
RecordsSend(s) ==
  LET id == hs[s].ev.msg.id
  IN  /\ hs[s].kind = "reaction" /\ hs[s].pc = "send"
      /\ hs'[s].pc = "done" /\ hs'[s].exit = "posted"
      /\ hofPosted' = Bump(hofPosted, id)
      /\ postedToHallOfFame' = postedToHallOfFame \cup {id}

\* C23: the posted-set holds only ids of messages whose Hall-of-Fame send
\* succeeded in this process; the set changes only in the step that ends a
\* successful send, so a send that fails and a handler that returns before
\* sending leave it as it was, and a handler whose send was rejected leaves the
\* id out of the set unless another send of it succeeded.
C23_PostedSetHoldsOnlySuccessfulSends ==
  /\ [](\A id \in postedToHallOfFame : hofPosted[id] >= 1)
  /\ [][postedToHallOfFame' # postedToHallOfFame => \E s \in Slots : RecordsSend(s)]_vars
  /\ [](\A s \in Slots :
          (hs[s].pc = "unhandled" /\ hs[s].exit = "sendRejected"
             /\ hofPosted[hs[s].ev.msg.id] = 0) =>
            hs[s].ev.msg.id \notin postedToHallOfFame)

\* a send of a message was rejected, and a later reaction-add on the same message
\* posted it
C23_Witness ==
  \E s, t \in Slots :
    /\ hs[s].kind = "reaction" /\ hs[s].pc = "unhandled" /\ hs[s].exit = "sendRejected"
    /\ hs[t].kind = "reaction" /\ hs[t].pc = "done" /\ hs[t].exit = "posted"
    /\ hs[t].ev.msg.id = hs[s].ev.msg.id
    /\ hs[t].ev.msg.id \in postedToHallOfFame
    /\ hofSends[hs[t].ev.msg.id] = 2
    /\ hofPosted[hs[t].ev.msg.id] = 1

\* a handler returned before sending, for want of a destination or of an author,
\* and the id is not in the posted-set
ReturnBeforeSendLeavesSetAlone ==
  \E s \in Slots :
    /\ hs[s].pc = "done" /\ hs[s].exit \in {"noDestination", "authorNull"}
    /\ hs[s].ev.msg.id \notin postedToHallOfFame

(***************************************************************************)
(* What a /starboard save leaves alone, checked under SpecStarboard        *)
(***************************************************************************)
\* the records of the guilds other than g, in the order of the file
OthersOf(file, g) == SelectSeq(file.val, LAMBDA r : r.guildId # g)

\* the step is a /starboard execution in slot s that saved
Saves(s) == Dispatched(s, "starboard") /\ ix'[s].writes = 1

\* C24: a /starboard save for guild G leaves the records of every other guild
\* as they were and in the same relative order; G's earlier record is gone, and
\* the new record of G is the last of the file.  No other step changes the file.
C24_SaveLeavesOtherGuildsAlone ==
  [][/\ \A s \in Slots :
          Saves(s) =>
            LET g == ix'[s].in.guildId
                new == starboardFile'.val
            IN  /\ starboardFile'.st = "json"
                /\ OthersOf(starboardFile', g) = OthersOf(starboardFile, g)
                /\ Len(new) = Len(OthersOf(starboardFile, g)) + 1
                /\ SameAsSaved(new[Len(new)], g, ConfigDataOf[ix'[s].in])
     /\ starboardFile' # starboardFile => \E s \in Slots : Saves(s)]_vars

\* a save for g1 took g1's record out from between the records of two other
\* guilds, which are still there in their order, and put the new one last
C24_Witness ==
  /\ starboardFile.st = "json"
  /\ Len(starboardFile.val) = 3
  /\ starboardFile.val[1] = OldConfig("g3", IdD)
  /\ starboardFile.val[2] = OldConfig("g2", IdC)
  /\ starboardFile.val[3].guildId = "g1"
  /\ lastSaved["g1"] # {}
  /\ lastSaved["g2"] = {}

(***************************************************************************)
(* Messages the message-create handler ignores, checked under SpecMessage  *)
(***************************************************************************)
\* the message is authored by a bot or was not sent in a guild
BotOrNoGuild(m) == m.author = "bot" \/ m.guildId = "none"

\* C25: for a message authored by a bot or sent outside a guild the
\* message-create handler makes no react call and creates no thread, whatever
\* the starboard file holds: its execution ends at once with no call made.
C25_BotAndGuildlessMessagesIgnored ==
  /\ \A m \in Messages :
       BotOrNoGuild(m) => reactCalls[m.id] = 0 /\ threadCalls[m.id] = 0
  /\ \A s \in Slots :
       (hs[s].kind = "message" /\ BotOrNoGuild(hs[s].ev.msg)) =>
          /\ hs[s].pc = "done"
          /\ hs[s].calls = <<>>

\* a message of a bot, with an attachment, in a channel the guild's config
\* monitors, was delivered and ignored
C25_Witness ==
  \E s \in Slots :
    LET m == hs[s].ev.msg
    IN  /\ hs[s].kind = "message" /\ hs[s].pc = "done" /\ hs[s].exit = "ignored"
        /\ m.author = "bot" /\ m.guildId # "none" /\ m.attachments > 0
        /\ \E r \in GuildRecords(m.guildId) : Includes(r.channelIds, m.channelId)
        /\ delivered[m.id] >= 1
        /\ reactCalls[m.id] = 0 /\ threadCalls[m.id] = 0

\* a message sent outside a guild was delivered and ignored
GuildlessMessageIgnored ==
  \E s \in Slots :
    /\ hs[s].kind = "message" /\ hs[s].exit = "ignored"
    /\ hs[s].ev.msg.guildId = "none"

====
